---- MODULE Spec2Model ----
(***************************************************************************)
(* TLS certificate live-reload of src/main.ts (bootstrap): startup read    *)
(* of secrets/key.pem and secrets/cert.pem, the capability guard, the two  *)
(* fs.watch registrations, the debounced scheduleReload and the reload     *)
(* callback that re-reads both files and calls server.setSecureContext.    *)
(*                                                                         *)
(* Time is in milliseconds.  A timer set with setTimeout(cb, 500) runs its *)
(* callback at its due instant: time does not advance past a due timer,    *)
(* and an fs.watch callback delivered at that instant runs after it (the   *)
(* event loop runs expired timers before it polls for I/O callbacks).      *)
(***************************************************************************)
EXTENDS Integers, Sequences, FiniteSets

\* ---------------------------------------------------------------- bounds
MaxSignals == 3      \* fs.watch notifications raised over a run

\* ------------------------------------------------------ program constants
Quiet == 500         \* setTimeout(..., 500)

\* The clock moves in half quiet intervals (or up to the next due timer),
\* long enough for every signal to be followed by a full quiet interval.
Step == Quiet \div 2
MaxTime == MaxSignals * Quiet

\* ------------------------------------------------------------ file system
Missing == "missing"     \* readFileSync / watch throw ENOENT
Empty == "empty"         \* the file exists and holds no bytes
Versions == {"v1", "v2"} \* PEM contents; key vN matches cert vN only
Contents == Versions \cup {Missing, Empty}
Paths == {"key", "cert"}
EventTypes == {"change", "rename"}

\* process.env.API_SECURE
EnvValues == {"true", "TRUE", "false", "unset"}

ToLowerCase(s) == IF s = "TRUE" THEN "true" ELSE s

\* const secure = process.env.API_SECURE?.toLowerCase() === 'true'
IsSecure(env) == env # "unset" /\ ToLowerCase(env) = "true"

NoPair == [key |-> "none", cert |-> "none"]
NoConn == [key |-> "closed", cert |-> "closed"]
Pair(k, c) == [key |-> k, cert |-> c]

\* Mutation: a missing file reads as no bytes instead of throwing.
ReadFileSync_NoThrow(content) ==
    [threw |-> FALSE, data |-> IF content = Missing THEN Empty ELSE content]

\* readFileSync(path): throws when the file is missing, else returns its
\* bytes (an empty file yields an empty Buffer, no exception).
ReadFileSync(content) == [threw |-> content = Missing, data |-> content]

\* The TLS stack accepts a pair iff both are well-formed PEM and the key
\* matches the certificate.
Accepts(k, c) == k \in Versions /\ c = k

\* Mutation: the capability guard is dropped.
HasSetSecureContext_Always(cap) == TRUE

\* typeof server?.setSecureContext === 'function'
HasSetSecureContext(cap) == cap

\* Mutation: the live-reload block is entered whatever the flag says.
TlsBlock_Always(sec) == TRUE

\* if (secure) of line 69
TlsBlock(sec) == sec

\* Mutation: the key is taken over before the pair is validated.
SetSecureContext_KeyFirst(cap, act, k, c) ==
    IF cap /\ Accepts(k, c)
    THEN [active |-> Pair(k, c), threw |-> FALSE]
    ELSE [active |-> Pair(k, act.cert), threw |-> TRUE]

\* Mutation: a refused pair is installed all the same before the throw.
SetSecureContext_SwapThenThrow(cap, act, k, c) ==
    IF cap /\ Accepts(k, c)
    THEN [active |-> Pair(k, c), threw |-> FALSE]
    ELSE [active |-> Pair(k, c), threw |-> TRUE]

\* Mutation: the call returns without swapping the context.
SetSecureContext_NoSwap(cap, act, k, c) ==
    [active |-> act, threw |-> ~(cap /\ Accepts(k, c))]

\* server.setSecureContext({key, cert}): swaps the listener's context as a
\* whole, or throws and leaves it as it was.  On a server without the
\* method the call itself throws a TypeError.
SetSecureContext(cap, act, k, c) ==
    IF cap /\ Accepts(k, c)
    THEN [active |-> Pair(k, c), threw |-> FALSE]
    ELSE [active |-> act, threw |-> TRUE]

\* ------------------------------------------------------------------ timers
NullTimer == 0

\* Mutation: clearTimeout has no effect (the superseded timer stays armed).
ClearTimeout_Noop(h, a) == a

\* clearTimeout(h): a no-op on a handle that already fired.
ClearTimeout(h, a) == {x \in a : x.id # h}

\* Mutation: the timer is set with half the delay.
SetTimeout_Short(a, id, t) == a \cup {[id |-> id, due |-> t + (Quiet \div 2)]}

\* setTimeout(cb, 500) called at time t, returning handle id.
SetTimeout(a, id, t) == a \cup {[id |-> id, due |-> t + Quiet]}

\* Mutation: the line that clears the previous timer is missing.
ScheduleReloadArmed_NoClear(h, a, id, t) == SetTimeout(a, id, t)

\* Mutation: a non-null handle is cleared and no new timer is set
\* (if (reloadTimer) clearTimeout(reloadTimer); else reloadTimer = setTimeout(...)).
ScheduleReloadArmed_Else(h, a, id, t) ==
    IF h # NullTimer THEN ClearTimeout(h, a) ELSE SetTimeout(a, id, t)

\* scheduleReload, lines 78-89: the set of armed timers after the call.
ScheduleReloadArmed(h, a, id, t) ==
    SetTimeout(IF h # NullTimer THEN ClearTimeout(h, a) ELSE a, id, t)

\* Mutation: the listener reacts to 'change' events only.
WatchListener_ChangeOnly(eventType, filename, h, a, id, t) ==
    IF eventType = "change" THEN ScheduleReloadArmed(h, a, id, t) ELSE a

\* The listener given to both watch calls, lines 94-95, is scheduleReload
\* itself: it is called with (eventType, filename) and uses neither.
WatchListener(eventType, filename, h, a, id, t) == ScheduleReloadArmed(h, a, id, t)

\* --------------------------------------------------------------- log lines
NoTs == -1
ListeningLine == [level |-> "log", msg |-> "API listening", ts |-> NoTs]
WatchingLine == [level |-> "log", msg |-> "[TLS] Watching cert/key for changes", ts |-> NoTs]
WatchFailLine == [level |-> "error", msg |-> "[TLS] Failed to watch cert/key files:", ts |-> NoTs]
NoReloadLine == [level |-> "warn", msg |-> "[TLS] Dynamic cert reload not available", ts |-> NoTs]
ReloadedLine(t) == [level |-> "log", msg |-> "[TLS] Reloaded certificate @", ts |-> t]
ReloadFailLine == [level |-> "error", msg |-> "[TLS] Failed to reload certificate:", ts |-> NoTs]

\* Mutation: no try/catch around the reads and the install; an exception
\* leaves the callback uncaught and takes the process down.
ReloadCallback_NoCatch(cap, act, kf, cf, t) ==
    LET rk == ReadFileSync(kf)
        rc == ReadFileSync(cf)
        r == SetSecureContext(cap, act, rk.data, rc.data)
    IN  IF rk.threw \/ rc.threw
        THEN [active |-> act, outcome |-> "readfail", nreads |-> IF rk.threw THEN 1 ELSE 2,
              ninstalls |-> 0, line |-> ReloadFailLine, escaped |-> TRUE, rearm |-> FALSE]
        ELSE [active |-> r.active,
              outcome |-> IF r.threw THEN "rejected" ELSE "installed",
              nreads |-> 2, ninstalls |-> 1,
              line |-> IF r.threw THEN ReloadFailLine ELSE ReloadedLine(t),
              escaped |-> r.threw, rearm |-> FALSE]

\* Mutation: the catch block schedules another attempt after a failure.
ReloadCallback_Retry(cap, act, kf, cf, t) ==
    LET rk == ReadFileSync(kf)
        rc == ReadFileSync(cf)
        r == SetSecureContext(cap, act, rk.data, rc.data)
    IN  IF rk.threw \/ rc.threw
        THEN [active |-> act, outcome |-> "readfail", nreads |-> IF rk.threw THEN 1 ELSE 2,
              ninstalls |-> 0, line |-> ReloadFailLine, escaped |-> FALSE, rearm |-> TRUE]
        ELSE [active |-> r.active,
              outcome |-> IF r.threw THEN "rejected" ELSE "installed",
              nreads |-> 2, ninstalls |-> 1,
              line |-> IF r.threw THEN ReloadFailLine ELSE ReloadedLine(t),
              escaped |-> FALSE, rearm |-> r.threw]

\* The timer callback, lines 81-88: read key, read cert, install, log.
\* Result: the listener's pair afterwards, how the attempt ended (a read
\* threw, install threw, or the pair was installed), the number of reads
\* and of install calls made and the line logged.  The catch of line 86
\* takes every exception (escaped is FALSE) and only logs: the callback
\* sets no timer of its own (rearm is FALSE).
ReloadCallback(cap, act, kf, cf, t) ==
    LET rk == ReadFileSync(kf)
        rc == ReadFileSync(cf)
    IN  IF rk.threw
        THEN [active |-> act, outcome |-> "readfail", nreads |-> 1, ninstalls |-> 0,
              line |-> ReloadFailLine, escaped |-> FALSE, rearm |-> FALSE]
        ELSE IF rc.threw
        THEN [active |-> act, outcome |-> "readfail", nreads |-> 2, ninstalls |-> 0,
              line |-> ReloadFailLine, escaped |-> FALSE, rearm |-> FALSE]
        ELSE LET r == SetSecureContext(cap, act, rk.data, rc.data)
             IN  [active |-> r.active,
                  outcome |-> IF r.threw THEN "rejected" ELSE "installed",
                  nreads |-> 2, ninstalls |-> 1,
                  line |-> IF r.threw THEN ReloadFailLine ELSE ReloadedLine(t),
                  escaped |-> FALSE, rearm |-> FALSE]

VARIABLES
    secure,       \* const secure of line 18 (FALSE until Boot computes it)
    capable,      \* the http server object has a setSecureContext function
    pc,           \* position of bootstrap(): start, created, listening, running, crashed, exited
    keyFile,      \* contents of secrets/key.pem
    certFile,     \* contents of secrets/cert.pem
    options,      \* the https options built at lines 23-31 (NoPair when plain HTTP)
    active,       \* the credential pair the listener serves new handshakes with
    keyWatched,   \* fs.watch(keyPath, ...) is registered
    certWatched,  \* fs.watch(certPath, ...) is registered
    pending,      \* paths of the fs notifications raised and not yet delivered (FIFO)
    reloadTimer,  \* the timer handle variable of line 75
    armed,        \* timers set and neither fired nor cleared: [id, due]
    nextId,       \* the handle the next setTimeout returns
    now,          \* clock, ms
    log,          \* console lines written so far
    reads,        \* number of readFileSync calls made so far
    installs,     \* number of server.setSecureContext calls made so far
    lastInstalled,\* history: the pair read by the latest attempt that logged success
    sigs,         \* history: the times of the scheduleReload calls
    attempts,     \* history: runs of the timer callback, [t, nsig, timer, outcome]
    conn,         \* the pair a client's open connection was set up with, or NoConn
    inflightAt    \* history kept by SpecRot only: notifications in flight at each attempt

vars == <<secure, capable, pc, keyFile, certFile, options, active, keyWatched, certWatched,
          pending, reloadTimer, armed, nextId, now, log, reads, installs, lastInstalled,
          sigs, attempts, conn, inflightAt>>

TimerDue == \E x \in armed : x.due <= now

Init ==
    /\ secure = FALSE
    /\ capable \in BOOLEAN
    /\ pc = "start"
    /\ keyFile \in Contents \ {"v2"}   \* a key present at startup is named v1
    /\ certFile \in Contents
    /\ options = NoPair
    /\ active = NoPair
    /\ keyWatched = FALSE
    /\ certWatched = FALSE
    /\ pending = <<>>
    /\ reloadTimer = NullTimer
    /\ armed = {}
    /\ nextId = 1
    /\ now = 0
    /\ log = <<>>
    /\ reads = 0
    /\ installs = 0
    /\ lastInstalled = NoPair
    /\ sigs = <<>>
    /\ attempts = <<>>
    /\ conn = NoConn
    /\ inflightAt = <<>>

Min(a, b) == IF a <= b THEN a ELSE b

\* The earliest due time among the armed timers, MaxTime when none is armed.
NextDue == IF armed = {} THEN MaxTime
           ELSE CHOOSE d \in {x.due : x \in armed} : \A y \in armed : d <= y.due

Watched(path) == IF path = "key" THEN keyWatched ELSE certWatched

\* Lines 18-33: decide secure, read both files when secure, build the server.
\* A failed read or a pair the TLS stack refuses throws out of bootstrap().
Boot(env) ==
    /\ pc = "start"
    /\ secure' = IsSecure(env)
    /\ LET rk == ReadFileSync(keyFile)
           rc == ReadFileSync(certFile)
       IN  IF ~IsSecure(env)
           THEN /\ pc' = "created"
                /\ UNCHANGED <<options, active, reads>>
           ELSE IF rk.threw
           THEN /\ pc' = "crashed"
                /\ reads' = reads + 1
                /\ UNCHANGED <<options, active>>
           ELSE IF rc.threw
           THEN /\ pc' = "crashed"
                /\ reads' = reads + 2
                /\ UNCHANGED <<options, active>>
           ELSE /\ options' = Pair(rk.data, rc.data)
                /\ reads' = reads + 2
                /\ IF Accepts(rk.data, rc.data)
                   THEN pc' = "created" /\ active' = Pair(rk.data, rc.data)
                   ELSE pc' = "crashed" /\ UNCHANGED active
    /\ UNCHANGED <<capable, keyFile, certFile, keyWatched, certWatched, pending,
                   reloadTimer, armed, nextId, now, log, sigs, attempts, conn,
                   installs, lastInstalled, inflightAt>>

\* Lines 60-66: app.listen; on error the callback logs it and exits.
Listen ==
    /\ pc = "created"
    /\ \E err \in BOOLEAN :
         IF err
         THEN /\ pc' = "exited"
              /\ log' = Append(log, [level |-> "error", msg |-> "listen", ts |-> NoTs])
         ELSE /\ pc' = "listening"
              /\ log' = Append(log, ListeningLine)
    /\ UNCHANGED <<secure, capable, keyFile, certFile, options, active, keyWatched,
                   certWatched, pending, reloadTimer, armed, nextId, now, reads, sigs,
                   attempts, conn,
                   installs, lastInstalled, inflightAt>>

\* Lines 69-103: the capability guard and the two watch registrations inside
\* one try block.  watch() throws on a missing path (ENOENT) and may throw
\* for other reasons (EACCES, ENOSPC); a throw of the first skips the second.
Attach ==
    /\ pc = "listening"
    /\ pc' = "running"
    /\ IF ~TlsBlock(secure)
       THEN UNCHANGED <<keyWatched, certWatched, log>>
       ELSE IF ~HasSetSecureContext(capable)
       THEN /\ log' = Append(log, NoReloadLine)
            /\ UNCHANGED <<keyWatched, certWatched>>
       ELSE \E kerr, cerr \in BOOLEAN :
              /\ keyFile = Missing => kerr
              /\ certFile = Missing => cerr
              /\ IF kerr
                 THEN /\ keyWatched' = FALSE
                      /\ certWatched' = FALSE
                      /\ log' = Append(log, WatchFailLine)
                 ELSE IF cerr
                 THEN /\ keyWatched' = TRUE
                      /\ certWatched' = FALSE
                      /\ log' = Append(log, WatchFailLine)
                 ELSE /\ keyWatched' = TRUE
                      /\ certWatched' = TRUE
                      /\ log' = Append(log, WatchingLine)
    /\ UNCHANGED <<secure, capable, keyFile, certFile, options, active, pending, reloadTimer,
                   armed, nextId, now, reads, sigs, attempts, conn,
                   installs, lastInstalled, inflightAt>>

\* An operator (or an ACME client) writes, truncates, replaces or removes
\* one of the two files; a registered watcher is notified.
Write(path, c) ==
    /\ pc \in {"created", "listening", "running"}
    /\ IF path = "key"
       THEN keyFile' = c /\ UNCHANGED certFile
       ELSE certFile' = c /\ UNCHANGED keyFile
    /\ IF Watched(path)
       THEN /\ Len(sigs) + Len(pending) < MaxSignals
            /\ pending' = Append(pending, path)
       ELSE UNCHANGED pending
    /\ UNCHANGED <<secure, capable, pc, options, active, keyWatched, certWatched, reloadTimer,
                   armed, nextId, now, log, reads, sigs, attempts, conn,
                   installs, lastInstalled, inflightAt>>

\* The watcher's listener runs: scheduleReload(eventType, filename), lines
\* 77-90.  Which event type fs.watch reports for a write is platform
\* dependent; scheduleReload takes no parameters and reads neither argument.
Deliver(eventType) ==
    /\ pc = "running"
    /\ pending # <<>>
    /\ ~TimerDue
    /\ now + Quiet <= MaxTime
    /\ armed' = WatchListener(eventType, Head(pending), reloadTimer, armed, nextId, now)
    /\ reloadTimer' = nextId
    /\ nextId' = nextId + 1
    /\ sigs' = Append(sigs, now)
    /\ pending' = Tail(pending)
    /\ UNCHANGED <<secure, capable, pc, keyFile, certFile, options, active, keyWatched,
                   certWatched, now, log, reads, attempts, conn,
                   installs, lastInstalled, inflightAt>>

\* A due timer runs its callback, lines 80-89.
TimerFireBody ==
    /\ pc = "running"
    /\ \E x \in armed :
         /\ x.due <= now
         /\ LET r == ReloadCallback(capable, active, keyFile, certFile, now)
            IN  /\ armed' = (armed \ {x}) \cup
                              (IF r.rearm /\ now + Quiet <= MaxTime
                               THEN {[id |-> x.id, due |-> now + Quiet]} ELSE {})
                /\ pc' = IF r.escaped THEN "crashed" ELSE pc
                /\ active' = r.active
                /\ log' = Append(log, r.line)
                /\ reads' = reads + r.nreads
                /\ installs' = installs + r.ninstalls
                /\ lastInstalled' = IF r.line.msg = ReloadedLine(now).msg
                                    THEN Pair(keyFile, certFile)
                                    ELSE lastInstalled
                /\ attempts' = Append(attempts,
                       [t |-> now, nsig |-> Len(sigs), timer |-> x.id,
                        outcome |-> r.outcome])
    /\ UNCHANGED <<secure, capable, keyFile, certFile, options, keyWatched, certWatched,
                   pending, reloadTimer, nextId, now, sigs, conn>>

TimerFire == TimerFireBody /\ UNCHANGED inflightAt

\* The same step, also noting how many notifications were in flight.
TimerFireRot == TimerFireBody /\ inflightAt' = Append(inflightAt, Len(pending))

\* The clock advances to the next step or to the next due time.
Tick ==
    /\ pc = "running"
    /\ ~TimerDue
    /\ now < MaxTime
    /\ now' = Min(Min(now + Step, NextDue), MaxTime)
    /\ UNCHANGED <<secure, capable, pc, keyFile, certFile, options, active, keyWatched,
                   certWatched, pending, reloadTimer, armed, nextId, log, reads, sigs,
                   attempts, conn,
                   installs, lastInstalled, inflightAt>>

\* A client completes a TLS handshake with the listener's current pair.
Connect ==
    /\ pc \in {"listening", "running"}
    /\ secure
    /\ conn = NoConn
    /\ conn' = active
    /\ UNCHANGED <<secure, capable, pc, keyFile, certFile, options, active, keyWatched,
                   certWatched, pending, reloadTimer, armed, nextId, now, log, reads,
                   sigs, attempts,
                   installs, lastInstalled, inflightAt>>

\* A client closes its connection.
Close ==
    /\ conn # NoConn
    /\ conn' = NoConn
    /\ UNCHANGED <<secure, capable, pc, keyFile, certFile, options, active, keyWatched,
                   certWatched, pending, reloadTimer, armed, nextId, now, log, reads,
                   sigs, attempts,
                   installs, lastInstalled, inflightAt>>

Next ==
    \/ \E env \in EnvValues : Boot(env)
    \/ Listen
    \/ Attach
    \/ \E p \in Paths, c \in Contents : Write(p, c)
    \/ \E ty \in EventTypes : Deliver(ty)
    \/ TimerFire
    \/ Tick
    \/ Connect
    \/ Close

Spec == Init /\ [][Next]_vars

\* A server that starts with TLS material in place and can reload it. A
\* notification is handled at the instant of its write (the clock does not
\* move while one is in flight), so the times of the signals are the times
\* of the writes; the runs of the callback also note the notifications in
\* flight.
TickRot == Tick /\ pending = <<>>

InitRot == Init /\ capable /\ keyFile = "v1" /\ certFile = "v1"

NextRot ==
    \/ \E env \in EnvValues : Boot(env)
    \/ Listen
    \/ Attach
    \/ \E p \in Paths, c \in Contents : Write(p, c)
    \/ \E ty \in EventTypes : Deliver(ty)
    \/ TimerFireRot
    \/ TickRot

SpecRot == InitRot /\ [][NextRot]_vars

\* ------------------------------------------------------------ the debounce
\* The signals of the burst that ends with signal k: k and the signals
\* before it, as long as each arrived less than Quiet after the previous one.
BurstOf(k) == {j \in 1..k : \A m \in j..(k - 1) : sigs[m + 1] - sigs[m] < Quiet}

\* Signal k is the last of its burst: the next signal, if any, came at
\* least Quiet later.
LastOfBurst(k) == k = Len(sigs) \/ sigs[k + 1] - sigs[k] >= Quiet

\* The quiet interval after signal k is over: a later signal was delivered,
\* or the clock reached sigs[k] + Quiet and no timer is left due at it.
Settled(k) == k < Len(sigs) \/ (now - sigs[k] >= Quiet /\ ~TimerDue)

\* The runs of the timer callback that took place after signal k and before
\* signal k + 1.
AttemptsAfter(k) == {i \in DOMAIN attempts : attempts[i].nsig = k}

\* C1: a burst of N >= 1 signals, each less than Quiet after the previous
\* one, is followed by exactly one reload, and that reload runs Quiet after
\* the last signal of the burst (never Quiet after an earlier one).
C1_DebounceCollapse ==
    /\ \A i \in DOMAIN attempts :
         /\ attempts[i].nsig >= 1
         /\ attempts[i].t = sigs[attempts[i].nsig] + Quiet
    /\ \A k \in DOMAIN sigs :
         (LastOfBurst(k) /\ Settled(k)) =>
            /\ Cardinality({i \in DOMAIN attempts : attempts[i].nsig \in BurstOf(k)}) = 1
            /\ Cardinality(AttemptsAfter(k)) = 1

\* C1 witness: a burst of two signals less than Quiet apart has produced its
\* single reload.
C1_Witness ==
    /\ Len(sigs) >= 2
    /\ sigs[2] - sigs[1] < Quiet
    /\ sigs[2] > sigs[1]
    /\ \E i \in DOMAIN attempts : attempts[i].nsig = 2

\* C2: over any sequence of signals, exactly one reload runs for each gap of
\* at least Quiet that follows a signal (to the next signal, or after the
\* last one), and none otherwise; a signal delivered after the previous timer
\* fired (the handle is stale, not null) arms a fresh timer.
C2_GapSeparation ==
    /\ \A k \in DOMAIN sigs :
         Cardinality(AttemptsAfter(k)) = IF LastOfBurst(k) /\ Settled(k) THEN 1 ELSE 0
    /\ Len(attempts) = Cardinality({k \in DOMAIN sigs : LastOfBurst(k) /\ Settled(k)})
    /\ (sigs # <<>> /\ AttemptsAfter(Len(sigs)) = {}) =>
          armed = {[id |-> reloadTimer, due |-> sigs[Len(sigs)] + Quiet]}

\* C2 witness: two signals at least Quiet apart, each followed by its own
\* reload; the second signal found the handle of the fired timer.
C2_Witness ==
    /\ Len(sigs) >= 2
    /\ sigs[2] - sigs[1] >= Quiet
    /\ Len(attempts) >= 2
    /\ attempts[1].nsig = 1
    /\ attempts[2].nsig = 2
    /\ attempts[1].timer # attempts[2].timer

\* The stream of signals is sustained: the last signal is less than Quiet old.
StreamAlive == sigs # <<>> /\ now - sigs[Len(sigs)] < Quiet

\* C3: while signals keep arriving less than Quiet apart, no reload runs:
\* as long as the stream is sustained, the timer callback has not run since
\* the first signal of the stream.
C3_BackPressure ==
    StreamAlive => \A i \in DOMAIN attempts : attempts[i].nsig \notin BurstOf(Len(sigs))

\* C3 witness: a stream of MaxSignals signals, the last still less than
\* Quiet old, at least Quiet after the first, and no reload so far.
C3_Witness ==
    /\ StreamAlive
    /\ Len(sigs) = MaxSignals
    /\ BurstOf(Len(sigs)) = DOMAIN sigs
    /\ now - sigs[1] >= Quiet
    /\ attempts = <<>>

\* ------------------------------------------------------ the credential pair
Serving == pc \in {"created", "listening", "running"}

\* The step is a run of the timer callback (a reload attempt).
AttemptStep == Len(attempts') = Len(attempts) + 1

LastOutcome == IF attempts = <<>> THEN "none" ELSE attempts[Len(attempts)].outcome

ReadFails == keyFile = Missing \/ certFile = Missing

\* C4: while the TLS listener serves, its active pair is the pair loaded at
\* startup or, once an install succeeded, the pair of the latest successful
\* install; it is never null and never a key of one install with a
\* certificate of another, and no open connection was set up with such a pair.
C4_ActiveCredential ==
    (Serving /\ secure) =>
        /\ active = IF lastInstalled = NoPair THEN options ELSE lastInstalled
        /\ active # NoPair
        /\ Accepts(active.key, active.cert)
        /\ conn # NoConn => Accepts(conn.key, conn.cert)

\* C4 witness: after a successful install of a new pair, a later attempt
\* failed, and the listener still serves the installed pair.
C4_Witness ==
    /\ Len(attempts) >= 2
    /\ attempts[1].outcome = "installed"
    /\ attempts[2].outcome # "installed"
    /\ active # options
    /\ active = lastInstalled

\* C5: a reload attempt in which the key file or the cert file cannot be
\* read does not call install and leaves the active pair as it was.
C5_ReadFailureAtomic ==
    [][(AttemptStep /\ ReadFails) =>
          /\ installs' = installs
          /\ active' = active
          /\ attempts'[Len(attempts')].outcome = "readfail"]_vars

\* C5 witness: an attempt just failed on the missing cert file while the key
\* file was readable; install was never called.
C5_Witness ==
    /\ LastOutcome = "readfail"
    /\ certFile = Missing
    /\ keyFile \in Versions
    /\ keyFile # active.key
    /\ installs = 0

\* C6: a reload attempt whose freshly read pair the listener rejects leaves
\* the active pair as it was and logs exactly one error line.
C6_InstallRejectionAtomic ==
    [][(AttemptStep /\ ~ReadFails /\ ~Accepts(keyFile, certFile)) =>
          /\ installs' = installs + 1
          /\ active' = active
          /\ log' = Append(log, ReloadFailLine)]_vars

\* C6 witness: install was called with a mismatched pair and rejected it.
C6_Witness ==
    /\ LastOutcome = "rejected"
    /\ keyFile \in Versions
    /\ certFile \in Versions
    /\ keyFile # certFile
    /\ installs = 1
    /\ active = options

\* Both watches are registered, at least one signal was delivered, none is
\* in flight, and the quiet interval after the last one is over.
RotationSettled ==
    /\ pc = "running"
    /\ keyWatched
    /\ certWatched
    /\ sigs # <<>>
    /\ pending = <<>>
    /\ Settled(Len(sigs))

\* C7: with both watches registered, once a valid pair is on disk and the
\* quiet interval after the last signal is over, the active pair is the
\* pair on disk; and a reload never touches an open connection.
C7_SuccessfulRotation ==
    /\ [](RotationSettled /\ Accepts(keyFile, certFile) => active = Pair(keyFile, certFile))
    /\ [][AttemptStep => conn' = conn]_vars

\* C7 witness: key and cert were both rewritten, the new pair is active, and
\* a connection set up with the startup pair is still open.
C7_Witness ==
    /\ RotationSettled
    /\ Pair(keyFile, certFile) # options
    /\ active = Pair(keyFile, certFile)
    /\ conn = options
    /\ LastOutcome = "installed"

WarnLines == {i \in DOMAIN log : log[i].level = "warn"}

\* C8: TLS on and no setSecureContext on the server: no watch is registered,
\* exactly one warning is logged, and no write to either file ever leads to
\* a signal, a timer or a reload attempt.
C8_DisabledCapabilityGuard ==
    (pc = "running" /\ secure /\ ~capable) =>
        /\ ~keyWatched
        /\ ~certWatched
        /\ Cardinality(WarnLines) = 1
        /\ \A i \in WarnLines : log[i] = NoReloadLine
        /\ pending = <<>>
        /\ sigs = <<>>
        /\ armed = {}
        /\ attempts = <<>>
        /\ active = options

\* C8 witness: the guard refused, both files were rewritten afterwards and a
\* quiet interval has gone by.
C8_Witness ==
    /\ pc = "running"
    /\ secure
    /\ ~capable
    /\ Pair(keyFile, certFile) = Pair("v2", "v2")
    /\ options = Pair("v1", "v1")
    /\ now >= Quiet

\* No watch is registered and no timer is armed.
Disabled == pc = "running" /\ ~keyWatched /\ ~certWatched /\ armed = {} /\ pending = <<>>

\* C9: with the TLS flag false nothing is watched, no timer is ever set,
\* no file is read and nothing is installed; with TLS off or the capability
\* missing the subsystem is Disabled, and Disabled is never left.
C9_DisabledInert ==
    /\ []((pc # "start" /\ ~secure) =>
            /\ ~keyWatched
            /\ ~certWatched
            /\ reloadTimer = NullTimer
            /\ armed = {}
            /\ nextId = 1
            /\ reads = 0
            /\ installs = 0
            /\ attempts = <<>>
            /\ active = NoPair)
    /\ []((pc = "running" /\ (~secure \/ ~capable)) => Disabled)
    /\ [][Disabled => Disabled']_vars

\* C9 witness: TLS off on a server that has setSecureContext; both files
\* were rewritten while running and time went by.
C9_Witness ==
    /\ pc = "running"
    /\ ~secure
    /\ capable
    /\ Disabled
    /\ keyFile = "v2"
    /\ certFile = "v2"
    /\ now >= Quiet

WatchFailLines == {i \in DOMAIN log : log[i] = WatchFailLine}

\* C10 (as claimed): once a watch registration failed, the failure is
\* reported once and hot-reload is off: no reload attempt ever runs and the
\* active pair stays the startup pair.
C10_WatchFailureDisables ==
    (pc = "running" /\ WatchFailLines # {}) =>
        /\ Cardinality(WatchFailLines) = 1
        /\ attempts = <<>>
        /\ active = options

\* ------------------------------------------------------- failure handling
FailedAttempts == {i \in DOMAIN attempts : attempts[i].outcome # "installed"}

\* C11: after a watch registration error, a read error or an install error
\* the process is still running and the listener still holds a pair the
\* TLS stack accepts.
C11_FailureContainment ==
    (FailedAttempts # {} \/ WatchFailLines # {}) =>
        /\ pc = "running"
        /\ active # NoPair
        /\ Accepts(active.key, active.cert)

\* C11 witness: all three errors have happened in one run.
C11_Witness ==
    /\ pc = "running"
    /\ WatchFailLines # {}
    /\ \E i \in DOMAIN attempts : attempts[i].outcome = "readfail"
    /\ \E i \in DOMAIN attempts : attempts[i].outcome = "rejected"

ReloadLines == {i \in DOMAIN log : log[i].msg \in {ReloadedLine(0).msg, ReloadFailLine.msg}}

\* C12 (as claimed): every reload attempt logs exactly one line, and that
\* line, success or failure, carries a timestamp.
C12_OneTimestampedLinePerAttempt ==
    /\ Cardinality(ReloadLines) = Len(attempts)
    /\ \A i \in ReloadLines : log[i].ts # NoTs

\* C13: at most one timer is armed, and it is the one the handle names; the
\* timer whose callback runs is always the one set by the latest signal (a
\* superseded timer never fires), and two runs of the callback are at
\* least Quiet apart.
C13_SinglePendingToken ==
    /\ Cardinality(armed) <= 1
    /\ \A x \in armed : x.id = reloadTimer
    /\ \A i \in DOMAIN attempts : attempts[i].timer = attempts[i].nsig
    /\ \A i \in 1..(Len(attempts) - 1) : attempts[i + 1].t - attempts[i].t >= Quiet

\* C13 witness: a timer was superseded by a second signal and only the
\* second timer fired; a third signal has armed the one timer now pending.
C13_Witness ==
    /\ Len(sigs) = 3
    /\ sigs[2] - sigs[1] < Quiet
    /\ Len(attempts) = 1
    /\ attempts[1].timer = 2
    /\ Cardinality(armed) = 1

\* C14 (as claimed): an attempt that finds the key file or the cert file
\* empty fails as a read error and does not call install.
C14_EmptyFileRejected ==
    [][(AttemptStep /\ (keyFile = Empty \/ certFile = Empty)) =>
          /\ installs' = installs
          /\ attempts'[Len(attempts')].outcome = "readfail"]_vars

\* C15: every reload attempt follows a signal delivered after the previous
\* attempt, so attempts never outnumber signals; after an attempt (failed or
\* not) no timer is armed until a new signal is delivered.
C15_NoRetryWithoutSignal ==
    /\ Len(attempts) <= Len(sigs)
    /\ \A i \in DOMAIN attempts : attempts[i].nsig >= 1
    /\ \A i \in 1..(Len(attempts) - 1) : attempts[i].nsig < attempts[i + 1].nsig
    /\ (attempts # <<>> /\ attempts[Len(attempts)].nsig = Len(sigs)) => armed = {}

\* C15 witness: the only attempt failed, a quiet interval has gone by since,
\* and nothing is armed or in flight.
C15_Witness ==
    /\ Len(attempts) = 1
    /\ attempts[1].outcome # "installed"
    /\ now >= attempts[1].t + Quiet
    /\ armed = {}
    /\ pending = <<>>

\* ---------------------------------------------------------- state machine
Enabled == pc = "running" /\ (keyWatched \/ certWatched)

\* The callback is synchronous: Reloading is the inside of an attempt step.
SubState == IF ~Enabled THEN "Disabled"
            ELSE IF armed # {} THEN "PendingReload" ELSE "Idle"

SignalStep == Len(sigs') = Len(sigs) + 1

\* C16: when enabled, an attempt (Reloading) starts only from PendingReload
\* and ends in Idle whatever its outcome; Idle is left only by a signal, to
\* PendingReload; PendingReload is left only by an attempt, and a signal
\* in PendingReload re-arms the timer.
C16_StateMachine ==
    [][Enabled =>
         /\ AttemptStep => (SubState = "PendingReload" /\ SubState' = "Idle")
         /\ SignalStep => (SubState' = "PendingReload"
                           /\ armed' = {[id |-> reloadTimer', due |-> now + Quiet]})
         /\ (~AttemptStep /\ ~SignalStep) => SubState' = SubState]_vars

\* C16 witness: Idle again after a successful and a failed reload.
C16_Witness ==
    /\ Enabled
    /\ SubState = "Idle"
    /\ Len(attempts) >= 2
    /\ \E i \in DOMAIN attempts : attempts[i].outcome = "installed"
    /\ FailedAttempts # {}

\* C17: a delivered notification arms the timer in the same way whatever
\* its path and event type: afterwards exactly one timer is armed, due Quiet
\* later; and an attempt reads the key file and then, unless that read
\* threw, the cert file, whatever triggered it.
C17_TriggerEquivalence ==
    /\ [][SignalStep =>
            /\ reloadTimer' = nextId
            /\ armed' = {[id |-> nextId, due |-> now + Quiet]}]_vars
    /\ [][AttemptStep => reads' = reads + (IF keyFile = Missing THEN 1 ELSE 2)]_vars

\* C17 witness: both watchers are registered, both files were rewritten,
\* two notifications were delivered and the timer of the second is armed.
C17_Witness ==
    /\ keyWatched
    /\ certWatched
    /\ Len(sigs) = 2
    /\ pending = <<>>
    /\ keyFile = "v2"
    /\ certFile = "v2"
    /\ options = Pair("v1", "v1")
    /\ armed = {[id |-> 2, due |-> sigs[2] + Quiet]}

\* ----------------------------------------------------------------- rotation
\* C18 (as claimed), with both watches registered so that every write step
\* raises a notification: no attempt runs between two write steps less than
\* Quiet apart.  Attempt i, with notifications in flight, ran after the
\* write of signal nsig + inflight and before the write of the next one.
C18_NoMidRotationRead ==
    (keyWatched /\ certWatched) =>
        \A i \in DOMAIN inflightAt :
            LET j == attempts[i].nsig + inflightAt[i]
            IN  (inflightAt[i] >= 1 /\ Len(sigs) >= j + 1) => sigs[j + 1] - sigs[j] >= Quiet

\* C18 (amended): no attempt runs between the handling of two signals that
\* are less than Quiet apart, and every attempt runs Quiet after the last
\* signal handled before it.
C18_NoReadBetweenSignals ==
    \A i \in DOMAIN attempts :
        /\ attempts[i].nsig >= 1
        /\ attempts[i].t = sigs[attempts[i].nsig] + Quiet
        /\ \A k \in DOMAIN sigs : attempts[i].nsig \in BurstOf(k) => k = attempts[i].nsig

\* C18 witness: key and cert were rewritten, the two signals less than
\* Quiet apart, and the one attempt, with nothing in flight, installed the
\* new pair.
C18_Witness ==
    /\ keyWatched
    /\ certWatched
    /\ Len(sigs) = 2
    /\ sigs[2] - sigs[1] < Quiet
    /\ sigs[2] > sigs[1]
    /\ Len(attempts) = 1
    /\ inflightAt = <<0>>
    /\ attempts[1].outcome = "installed"
    /\ options = Pair("v1", "v1")
    /\ active = Pair("v2", "v2")

\* C19: once the quiet interval after the last delivered signal is over, an
\* attempt has run after that signal (hence after every signal), also when
\* the signal came after a timer had fired; and an attempt installs what is
\* on disk when it runs.
C19_NoLostSignal ==
    /\ []((sigs # <<>> /\ Settled(Len(sigs))) =>
            \E i \in DOMAIN attempts :
                /\ attempts[i].nsig = Len(sigs)
                /\ attempts[i].t >= sigs[Len(sigs)])
    /\ [][AttemptStep =>
            /\ (attempts'[Len(attempts')].outcome = "installed")
                   <=> (capable /\ Accepts(keyFile, certFile))
            /\ (capable /\ Accepts(keyFile, certFile)) => active' = Pair(keyFile, certFile)]_vars

\* C19 witness: a signal delivered at the instant the first timer fired,
\* right after its callback, was followed by its own attempt, which
\* installed a pair written after that signal.
C19_Witness ==
    /\ Len(attempts) = 2
    /\ Len(sigs) = 2
    /\ sigs[2] = attempts[1].t
    /\ attempts[2].nsig = 2
    /\ attempts[1].outcome = "rejected"
    /\ attempts[2].outcome = "installed"
    /\ active # options

====
